---- MODULE Spec2Model ----
(***************************************************************************)
(* Model of DocumentProcessor                                              *)
(* (src/sustainability_rag/src/extractors/text_extractor.py).              *)
(*                                                                         *)
(* A Python str is a sequence of one-character strings.  Characters        *)
(* outside ASCII are written by their code point: "u7B2C" is U+7B2C.       *)
(***************************************************************************)
EXTENDS Integers, Sequences, FiniteSets, TLC

VARIABLES
    \* ---- _split_text, run as a loop over the lines of one text
    text,            \* the argument of _split_text
    chunk_size,      \* self.chunk_size
    chunk_overlap,   \* self.chunk_overlap
    lines,           \* text.split('\n')
    idx,             \* position of the for loop in lines
    current_chunk,   \* the buffer
    chunks,          \* the chunks flushed so far
    spc,             \* "loop" | "done" ("idle" outside a run of the loop)
    \* ---- process_document, run on one file
    file_name,       \* file_path.name
    doc,             \* what the file holds, as the format's library reads it
    dpc,             \* position of the call
    metadata,        \* the metadata dict
    rtext,           \* the reader's text
    tables,          \* the reader's tables
    unit,            \* position of the reader's loop (page, table, sheet)
    log,             \* what went to self.logger
    readers,         \* the format readers invoked
    raised,          \* the exception the call ended in
    \* ---- _extract_metric_candidates, run as its two nested loops
    mtext,           \* the argument of _extract_metric_candidates
    mkw,             \* position of the loop over esg_keywords
    mpos,            \* where re.finditer resumes for the current keyword
    candidates,      \* the candidates appended so far
    mpc              \* "scan" | "done" ("idle" outside a run)

splitVars == <<text, chunk_size, chunk_overlap, lines, idx, current_chunk, chunks, spc>>

docVars == <<file_name, doc, dpc, metadata, rtext, tables, unit, log, readers, raised>>

metricVars == <<mtext, mkw, mpos, candidates, mpc>>

vars == <<splitVars, docVars, metricVars>>

----------------------------------------------------------------------------
\* Characters

NL == "\n"

\* what str.strip() removes (the whitespace of the model's alphabets)
Whitespace == {" ", "\n", "\t", "\r"}

\* [一二三四五六七八九十]
ChineseNumerals ==
    {"u4E00", "u4E8C", "u4E09", "u56DB", "u4E94", "u516D", "u4E03", "u516B", "u4E5D", "u5341"}

\* \d (the ASCII digits)
Digits == {"0", "1", "2", "3", "4", "5", "6", "7", "8", "9"}

----------------------------------------------------------------------------
\* str helpers

RECURSIVE LStrip(_)
LStrip(s) ==
    IF s # <<>> /\ Head(s) \in Whitespace THEN LStrip(Tail(s)) ELSE s

RECURSIVE RStrip(_)
RStrip(s) ==
    IF s # <<>> /\ s[Len(s)] \in Whitespace
    THEN RStrip(SubSeq(s, 1, Len(s) - 1))
    ELSE s

\* str.strip()
Strip(s) == RStrip(LStrip(s))

\* str.split('\n'): the pieces between newlines, the empty ones included
RECURSIVE SplitNL(_)
SplitNL(s) ==
    IF \A i \in 1..Len(s) : s[i] # NL
    THEN <<s>>
    ELSE LET k == CHOOSE i \in 1..Len(s) :
                      s[i] = NL /\ \A j \in 1..(i - 1) : s[j] # NL
         IN  <<SubSeq(s, 1, k - 1)>> \o SplitNL(SubSeq(s, k + 1, Len(s)))

\* the index after the longest run of characters of `set` that starts at i
RECURSIVE RunEnd(_, _, _)
RunEnd(s, i, set) ==
    IF i <= Len(s) /\ s[i] \in set THEN RunEnd(s, i + 1, set) ELSE i

\* (?:[一二三四五六七八九十]+、|\d+\.|第[一二三四五六七八九十]+章) matches at index i
HeadingAt(s, i) ==
    \/ LET e == RunEnd(s, i, ChineseNumerals)
       IN  e > i /\ e <= Len(s) /\ s[e] = "u3001"
    \/ LET e == RunEnd(s, i, Digits)
       IN  e > i /\ e <= Len(s) /\ s[e] = "."
    \/ /\ i <= Len(s) /\ s[i] = "u7B2C"
       /\ LET e == RunEnd(s, i + 1, ChineseNumerals)
          IN  e > i + 1 /\ e <= Len(s) /\ s[e] = "u7AE0"

\* re.match(section_pattern, line): the pattern begins with a newline
SectionMatch(line) ==
    /\ Len(line) >= 1
    /\ line[1] = NL
    /\ HeadingAt(line, 2)

----------------------------------------------------------------------------
\* _split_text

\* the comparison that decides a size break
MutOverLimitGeq(cur, line, size, overlap) ==
    Len(cur) + Len(line) >= size - overlap

OverLimit(cur, line, size, overlap) ==
    Len(cur) + Len(line) > size - overlap

\* the buffer after a size break
MutBreakBufferDropsLine(line) == <<>>

BreakBuffer(line) == line

\* one iteration of the for loop: [chunks, current_chunk] after `line`
SplitLine(cs, cur, line, size, overlap) ==
    IF SectionMatch(line) /\ cur # <<>>
    THEN [chunks |-> Append(cs, Strip(cur)), current_chunk |-> line]
    ELSE IF OverLimit(cur, line, size, overlap)
         THEN [chunks        |-> IF cur # <<>> THEN Append(cs, Strip(cur)) ELSE cs,
               current_chunk |-> BreakBuffer(line)]
         ELSE [chunks |-> cs, current_chunk |-> cur \o <<NL>> \o line]

\* after the loop: the last buffer is flushed when it is not the empty string
SplitFlush(cs, cur) ==
    IF cur # <<>> THEN Append(cs, Strip(cur)) ELSE cs

RECURSIVE SplitFold(_, _, _, _, _)
SplitFold(cs, cur, ls, size, overlap) ==
    IF ls = <<>>
    THEN SplitFlush(cs, cur)
    ELSE LET st == SplitLine(cs, cur, Head(ls), size, overlap)
         IN  SplitFold(st.chunks, st.current_chunk, Tail(ls), size, overlap)

\* _split_text(text) as a function of the text and the configuration
SplitText(t, size, overlap) == SplitFold(<<>>, <<>>, SplitNL(t), size, overlap)

----------------------------------------------------------------------------
\* Inputs of _split_text

MaxLen == 6
MaxChunkSize == 4

SplitAlphabet == {NL, " ", "a"}

RECURSIVE StringsUpTo(_, _)
StringsUpTo(alphabet, n) ==
    IF n = 0
    THEN {<<>>}
    ELSE LET shorter == StringsUpTo(alphabet, n - 1)
         IN  shorter \cup {Append(s, c) : s \in {x \in shorter : Len(x) = n - 1}, c \in alphabet}

\* "第一章 緣起\n內容A\n第二章 發展\n內容B"
ChapterText ==
    <<"u7B2C", "u4E00", "u7AE0", " ", "u7DE3", "u8D77", NL,
      "u5167", "u5BB9", "A", NL,
      "u7B2C", "u4E8C", "u7AE0", " ", "u767C", "u5C55", NL,
      "u5167", "u5BB9", "B">>

\* "一、a\n1.a\na"
HeadingText == <<"u4E00", "u3001", "a", NL, "1", ".", "a", NL, "a">>

DefaultChunkSize == 1000
DefaultChunkOverlap == 200

SplitInputs ==
    {[text |-> t, size |-> s, overlap |-> o] :
        t \in StringsUpTo(SplitAlphabet, MaxLen), s \in 1..MaxChunkSize, o \in 0..MaxChunkSize}
    \cup
    {[text |-> t, size |-> c[1], overlap |-> c[2]] :
        t \in {ChapterText, HeadingText},
        c \in {<<DefaultChunkSize, DefaultChunkOverlap>>, <<MaxChunkSize, 0>>}}

NoError == [type |-> "none", arg |-> <<>>]

\* the metadata dict; process_time, the clock's reading, is left out
NoMetadata == [file_name |-> <<>>, file_type |-> <<>>, tables_found |-> 0, total_chunks |-> 0]

\* no call of process_document is running
DocIdle ==
    /\ file_name = <<>>
    /\ doc = [kind |-> "none"]
    /\ dpc = "idle"
    /\ metadata = NoMetadata
    /\ rtext = <<>>
    /\ tables = <<>>
    /\ unit = 0
    /\ log = <<>>
    /\ readers = <<>>
    /\ raised = NoError

\* no call of _extract_metric_candidates is running
MetricIdle ==
    /\ mtext = <<>>
    /\ mkw = 0
    /\ mpos = 0
    /\ candidates = <<>>
    /\ mpc = "idle"


SplitInit ==
    \E in \in SplitInputs :
        /\ text = in.text
        /\ chunk_size = in.size
        /\ chunk_overlap = in.overlap
        /\ lines = SplitNL(in.text)
        /\ idx = 1
        /\ current_chunk = <<>>
        /\ chunks = <<>>
        /\ spc = "loop"
        /\ DocIdle
        /\ MetricIdle

\* for line in lines: ...
SplitLoop ==
    /\ spc = "loop"
    /\ idx <= Len(lines)
    /\ LET st == SplitLine(chunks, current_chunk, lines[idx], chunk_size, chunk_overlap)
       IN  /\ chunks' = st.chunks
           /\ current_chunk' = st.current_chunk
    /\ idx' = idx + 1
    /\ UNCHANGED <<text, chunk_size, chunk_overlap, lines, spc>>
    /\ UNCHANGED <<docVars, metricVars>>

\* if current_chunk: chunks.append(current_chunk.strip()); return chunks
SplitReturn ==
    /\ spc = "loop"
    /\ idx > Len(lines)
    /\ chunks' = SplitFlush(chunks, current_chunk)
    /\ spc' = "done"
    /\ UNCHANGED <<text, chunk_size, chunk_overlap, lines, idx, current_chunk>>
    /\ UNCHANGED <<docVars, metricVars>>

SplitNext == SplitLoop \/ SplitReturn

SpecSplit == SplitInit /\ [][SplitNext]_vars

----------------------------------------------------------------------------
\* Properties of _split_text

\* the lines of all chunks, in chunk order
RECURSIVE ChunkLines(_)
ChunkLines(cs) ==
    IF cs = <<>> THEN <<>> ELSE SplitNL(Head(cs)) \o ChunkLines(Tail(cs))

\* the lines of ls that are not blank, in order
RECURSIVE NonBlank(_)
NonBlank(ls) ==
    IF ls = <<>>
    THEN <<>>
    ELSE IF Strip(Head(ls)) = <<>>
         THEN NonBlank(Tail(ls))
         ELSE <<Head(ls)>> \o NonBlank(Tail(ls))

\* every line trimmed
StripEach(ls) == [i \in 1..Len(ls) |-> Strip(ls[i])]

SaneConfig == 0 <= chunk_overlap /\ chunk_overlap < chunk_size

\* C1 (as claimed): whenever the line being scanned is a section-start line
\* and the buffer is non-empty, the step flushes the buffer as a chunk and the
\* heading line becomes the new buffer.
C1_SectionStartFlushes ==
    [][(/\ spc = "loop"
        /\ idx <= Len(lines)
        /\ HeadingAt(lines[idx], 1)
        /\ current_chunk # <<>>)
       => (/\ chunks' = Append(chunks, Strip(current_chunk))
           /\ current_chunk' = lines[idx])]_vars

\* C2 (as claimed): no returned chunk is the empty string after trimming; the
\* empty text and a text of blank lines return no chunk at all.
C2_NoEmptyChunk ==
    spc = "done" => \A i \in 1..Len(chunks) : Strip(chunks[i]) # <<>>

\* the run returned no empty chunk (the case C2 is about)
NoEmptyChunk == \A i \in 1..Len(chunks) : chunks[i] # <<>>

\* C3 (as claimed): with 0 <= chunk_overlap < chunk_size, a text shorter than
\* chunk_size returns exactly one chunk, the trimmed text.  Read on the runs
\* that return no empty chunk, so that C2's empty chunks are not what
\* refutes it.
C3_ShorterThanChunkSize ==
    (spc = "done" /\ SaneConfig /\ Len(text) < chunk_size /\ NoEmptyChunk)
        => chunks = <<Strip(text)>>

\* C3 (amended): with 0 <= chunk_overlap < chunk_size, a text whose length is
\* at most chunk_size - chunk_overlap returns exactly one chunk, the trimmed
\* text.
C3_WithinBreakThreshold ==
    (spc = "done" /\ SaneConfig /\ Len(text) <= chunk_size - chunk_overlap)
        => chunks = <<Strip(text)>>

\* C3 witness: a text of several lines, as long as the break threshold, was
\* returned as one chunk.
C3_Witness ==
    /\ spc = "done"
    /\ SaneConfig
    /\ Len(lines) >= 2
    /\ Len(text) = chunk_size - chunk_overlap
    /\ Strip(text) # <<>>
    /\ chunks = <<Strip(text)>>

\* C4 (as claimed): the lines of the returned chunks, in chunk order, are
\* exactly the non-blank lines of the text, each once and in order.  Read on
\* the runs that return no empty chunk, so that C2's empty chunks are not
\* what refutes it.
C4_LinesPreservedExactly ==
    (spc = "done" /\ NoEmptyChunk) => ChunkLines(chunks) = NonBlank(lines)

\* C4 (amended): once every line is trimmed and the blank ones are dropped,
\* the lines of the returned chunks, in chunk order, are exactly the lines of
\* the text, each once and in order.
C4_LinesPreservedTrimmed ==
    spc = "done" => NonBlank(StripEach(ChunkLines(chunks))) = NonBlank(StripEach(lines))

\* C4 witness: a text with a blank line between its lines was returned as
\* several chunks, one of them of several lines.
C4_Witness ==
    /\ spc = "done"
    /\ Len(chunks) >= 2
    /\ \E i \in 1..Len(chunks) : Len(NonBlank(SplitNL(chunks[i]))) >= 2
    /\ \E i \in 2..(Len(lines) - 1) : lines[i] = <<>>
    /\ Len(NonBlank(lines)) >= 3

\* C9 (as claimed): with 0 <= chunk_overlap < chunk_size, a returned chunk of
\* two or more lines is never longer than chunk_size.
C9_MultiLineChunkWithinSize ==
    (spc = "done" /\ SaneConfig)
        => \A i \in 1..Len(chunks) :
               Len(SplitNL(chunks[i])) >= 2 => Len(chunks[i]) <= chunk_size

----------------------------------------------------------------------------
\* process_document: helpers

\* str.lower() on the letters of the model's file names
LowerChar(c) ==
    CASE c = "P" -> "p"
      [] c = "D" -> "d"
      [] c = "F" -> "f"
      [] c = "O" -> "o"
      [] c = "C" -> "c"
      [] c = "X" -> "x"
      [] c = "L" -> "l"
      [] c = "S" -> "s"
      [] c = "T" -> "t"
      [] c = "R" -> "r"
      [] OTHER -> c

Lower(s) == [i \in 1..Len(s) |-> LowerChar(s[i])]

\* PurePath.suffix of a file name: from the last dot on, unless that dot is the
\* first or the last character of the name
Suffix(name) ==
    LET dots == {i \in 1..Len(name) : name[i] = "."}
    IN  IF dots = {}
        THEN <<>>
        ELSE LET i == CHOOSE d \in dots : \A e \in dots : e <= d
             IN  IF 1 < i /\ i < Len(name) THEN SubSeq(name, i, Len(name)) ELSE <<>>

\* suffix = file_path.suffix.lower()
MutSuffixNoLower(name) == Suffix(name)

DispatchSuffix(name) == Lower(Suffix(name))

ExtPdf == <<".", "p", "d", "f">>
ExtDocx == <<".", "d", "o", "c", "x">>
ExtXlsx == <<".", "x", "l", "s", "x">>

\* the if / elif chain on suffix: the reader called, "" when none is
ReaderFor(suffix) ==
    IF suffix = ExtPdf THEN "_read_pdf"
    ELSE IF suffix = ExtDocx THEN "_read_docx"
    ELSE IF suffix = ExtXlsx THEN "_read_excel"
    ELSE ""

\* the attributes class DocumentProcessor defines
MutMethodsWithPdfTableHelper ==
    {"__init__", "process_document", "_read_pdf", "_read_docx", "_read_excel",
     "_process_tables", "_split_text", "_extract_metric_candidates",
     "_extract_tables_from_pdf_page"}

DocumentProcessorMethods ==
    {"__init__", "process_document", "_read_pdf", "_read_docx", "_read_excel",
     "_process_tables", "_split_text", "_extract_metric_candidates"}

\* sep.join(strs)
RECURSIVE Join(_, _)
Join(strs, sep) ==
    IF strs = <<>> THEN <<>>
    ELSE IF Len(strs) = 1 THEN strs[1]
    ELSE strs[1] \o sep \o Join(Tail(strs), sep)

\* the concatenation of a sequence of strings
RECURSIVE Concat(_)
Concat(strs) == IF strs = <<>> THEN <<>> ELSE Head(strs) \o Concat(Tail(strs))

\* str(i) for 1 <= i
RECURSIVE DecStr(_)
DecStr(i) ==
    LET d == <<"0", "1", "2", "3", "4", "5", "6", "7", "8", "9">>[(i % 10) + 1]
    IN  IF i < 10 THEN <<d>> ELSE Append(DecStr(i \div 10), d)

\* A DataFrame: its column labels, whether every label is a str, its rows.
\* pd.DataFrame(data[1:], columns=data[0])
DataFrame(data) ==
    [columns |-> data[1], strcols |-> TRUE, body |-> SubSeq(data, 2, Len(data))]

\* df.to_string(index=False): the header line and one line per row (pandas
\* pads the cells to align the columns; the padding is left out), or pandas'
\* three lines for a frame without rows.
DfToString(df) ==
    IF df.body = <<>>
    THEN <<"E", "m", "p", "t", "y", " ", "D", "a", "t", "a", "F", "r", "a", "m", "e", NL,
           "C", "o", "l", "u", "m", "n", "s", ":", " ", "[">>
         \o Join(df.columns, <<",", " ">>)
         \o <<"]", NL, "I", "n", "d", "e", "x", ":", " ", "[", "]">>
    ELSE Join(<<Join(df.columns, <<" ">>)>>
              \o [i \in 1..Len(df.body) |-> Join(df.body[i], <<" ">>)], <<NL>>)

\* ', '.join(df.columns) raises TypeError when a label is not a str
JoinRaises(df) == ~df.strcols

\* _process_tables: "\n表格 {i}:\n" "欄位: {cols}\n" "{rows}\n" for each table
RECURSIVE ProcessTablesFrom(_, _)
ProcessTablesFrom(tbls, i) ==
    IF i > Len(tbls)
    THEN <<>>
    ELSE <<NL, "u8868", "u683C", " ">> \o DecStr(i) \o <<":", NL>>
         \o <<"u6B04", "u4F4D", ":", " ">> \o Join(tbls[i].columns, <<",", " ">>) \o <<NL>>
         \o DfToString(tbls[i]) \o <<NL>>
         \o ProcessTablesFrom(tbls, i + 1)

ProcessTables(tbls) == ProcessTablesFrom(tbls, 1)

ProcessTablesRaises(tbls) == \E i \in 1..Len(tbls) : JoinRaises(tbls[i])

\* metadata['tables_found'] = len(tables); metadata['total_chunks'] = len(chunks)
MutMetadataNotUpdated(md, tbls, cs) == md

UpdateMetadata(md, tbls, cs) ==
    [md EXCEPT !.tables_found = Len(tbls), !.total_chunks = Len(cs)]

Warning(k) == [level |-> "warning", unit |-> k]

\* The table step of one PDF page, inside its try / except: the tables and
\* the log after it, and the exception that leaves it (none does).
PdfPageTableStep(tbls, lg, page, k) ==
    IF "_extract_tables_from_pdf_page" \in DocumentProcessorMethods
    THEN [tables |-> tbls \o page.tables, log |-> lg, raised |-> NoError]
    ELSE [tables |-> tbls, log |-> Append(lg, Warning(k)), raised |-> NoError]

\* the step without the local handler
MutDocxTableStepNotAbsorbed(tbls, lg, tbl, k) ==
    IF tbl.raises
    THEN [tables |-> tbls, log |-> lg, raised |-> [type |-> "TableError", arg |-> <<>>]]
    ELSE IF tbl.rows # <<>>
         THEN [tables |-> Append(tbls, DataFrame(tbl.rows)), log |-> lg, raised |-> NoError]
         ELSE [tables |-> tbls, log |-> lg, raised |-> NoError]

\* The step of one DOCX table, inside its try / except.
DocxTableStep(tbls, lg, tbl, k) ==
    IF tbl.raises
    THEN [tables |-> tbls, log |-> Append(lg, Warning(k)), raised |-> NoError]
    ELSE IF tbl.rows # <<>>
         THEN [tables |-> Append(tbls, DataFrame(tbl.rows)), log |-> lg, raised |-> NoError]
         ELSE [tables |-> tbls, log |-> lg, raised |-> NoError]

----------------------------------------------------------------------------
\* Inputs of process_document

MaxUnits == 2

FileNames ==
    {<<"r", ".", "p", "d", "f">>, <<"r", ".", "P", "D", "F">>,
     <<"r", ".", "d", "o", "c", "x">>, <<"r", ".", "D", "o", "c", "x">>,
     <<"r", ".", "x", "l", "s", "x">>,
     <<"r", ".", "t", "x", "t">>, <<"r", ".", "p", "d", "f", ".", "t", "x", "t">>,
     <<"r">>, <<".", "p", "d", "f">>}

SeqsUpTo(S, n) == UNION {[1..k -> S] : k \in 0..n}

SampleFrame == [columns |-> <<<<"c">>>>, strcols |-> TRUE, body |-> <<<<<<"x">>>>>>]

\* a page: its text, whether extract_text returns, the tables on it
PdfPages ==
    [text : {<<"a">>, <<"a", NL, "1", ".", "b">>}, readable : BOOLEAN,
     tables : {<<>>, <<SampleFrame>>}]

\* a table of a DOCX file: its rows of cell texts, whether reading it raises
DocxTables ==
    [rows : {<<>>, <<<<<<"c">>>>>>, <<<<<<"c">>>>, <<<<"x">>>>>>}, raises : BOOLEAN]

\* a worksheet: its name, whether read_excel returns, the frame it returns
Sheets ==
    [name : {<<"S">>}, readable : BOOLEAN,
     df : [columns : {<<<<"c">>>>}, strcols : BOOLEAN, body : {<<>>, <<<<<<"x">>>>>>}]]

DocsFor(suffix) ==
    IF suffix = ExtPdf
    THEN [kind : {"pdf"}, opens : BOOLEAN, pages : SeqsUpTo(PdfPages, MaxUnits)]
    ELSE IF suffix = ExtDocx
    THEN [kind : {"docx"}, opens : BOOLEAN, paragraphs : {<<>>, <<<<"a">>, <<>>, <<"b", " ">>>>},
          tables : SeqsUpTo(DocxTables, MaxUnits)]
    ELSE IF suffix = ExtXlsx
    THEN [kind : {"xlsx"}, opens : BOOLEAN, sheets : SeqsUpTo(Sheets, MaxUnits)]
    ELSE {[kind |-> "other"]}

DocConfigs == {<<DefaultChunkSize, DefaultChunkOverlap>>, <<MaxChunkSize, 0>>}

Init ==
    /\ \E c \in DocConfigs : chunk_size = c[1] /\ chunk_overlap = c[2]
    /\ file_name \in FileNames
    /\ doc \in DocsFor(Lower(Suffix(file_name)))
    /\ dpc = "call"
    /\ metadata = NoMetadata
    /\ rtext = <<>>
    /\ tables = <<>>
    /\ unit = 0
    /\ log = <<>>
    /\ readers = <<>>
    /\ raised = NoError
    /\ text = <<>>
    /\ lines = <<>>
    /\ idx = 0
    /\ current_chunk = <<>>
    /\ chunks = <<>>
    /\ spc = "idle"
    /\ MetricIdle

----------------------------------------------------------------------------
\* process_document: actions

\* except Exception as e: self.logger.error(...); raise
Raise(type, arg) ==
    /\ dpc' = "raised"
    /\ raised' = [type |-> type, arg |-> arg]
    /\ log' = Append(log, [level |-> "error", unit |-> 0])

\* suffix, metadata, and the dispatch on suffix
ProcessDocument ==
    /\ dpc = "call"
    /\ LET suffix == DispatchSuffix(file_name)
       IN  /\ metadata' = [file_name |-> file_name, file_type |-> suffix,
                           tables_found |-> 0, total_chunks |-> 0]
           /\ IF ReaderFor(suffix) # ""
              THEN /\ readers' = Append(readers, ReaderFor(suffix))
                   /\ dpc' = ReaderFor(suffix)
                   /\ UNCHANGED <<log, raised>>
              ELSE /\ Raise("ValueError", suffix)
                   /\ UNCHANGED readers
    /\ UNCHANGED <<file_name, doc, rtext, tables, unit>>
    /\ UNCHANGED <<splitVars, metricVars>>

\* _read_pdf: reader = PdfReader(...); text = ""; tables = []
ReadPdfOpen ==
    /\ dpc = "_read_pdf"
    /\ unit = 0
    /\ IF doc.kind = "pdf" /\ doc.opens
       THEN /\ rtext' = <<>>
            /\ tables' = <<>>
            /\ IF doc.pages = <<>> THEN dpc' = "read_done" /\ unit' = 0
                                   ELSE dpc' = dpc /\ unit' = 1
            /\ UNCHANGED <<log, raised>>
       ELSE /\ Raise("ReadError", <<>>)
            /\ UNCHANGED <<rtext, tables, unit>>
    /\ UNCHANGED <<file_name, doc, metadata, readers>>
    /\ UNCHANGED <<splitVars, metricVars>>

\* _read_pdf: one page of the loop
ReadPdfPage ==
    /\ dpc = "_read_pdf"
    /\ unit >= 1
    /\ LET page == doc.pages[unit]
           st == PdfPageTableStep(tables, log, page, unit)
       IN  IF ~page.readable
           THEN /\ Raise("ReadError", <<>>)
                /\ UNCHANGED <<rtext, tables, unit>>
           ELSE /\ rtext' = rtext \o page.text \o <<NL>>
                /\ tables' = st.tables
                /\ IF st.raised # NoError
                   THEN /\ Raise(st.raised.type, st.raised.arg)
                        /\ UNCHANGED unit
                   ELSE /\ log' = st.log
                        /\ IF unit < Len(doc.pages)
                           THEN dpc' = dpc /\ unit' = unit + 1
                           ELSE dpc' = "read_done" /\ unit' = 0
                        /\ UNCHANGED raised
    /\ UNCHANGED <<file_name, doc, metadata, readers>>
    /\ UNCHANGED <<splitVars, metricVars>>

\* _read_docx: doc = docx.Document(...); the loop over the paragraphs
ReadDocxOpen ==
    /\ dpc = "_read_docx"
    /\ unit = 0
    /\ IF doc.kind = "docx" /\ doc.opens
       THEN /\ rtext' = Concat([i \in 1..Len(doc.paragraphs) |-> doc.paragraphs[i] \o <<NL>>])
            /\ tables' = <<>>
            /\ IF doc.tables = <<>> THEN dpc' = "read_done" /\ unit' = 0
                                    ELSE dpc' = dpc /\ unit' = 1
            /\ UNCHANGED <<log, raised>>
       ELSE /\ Raise("ReadError", <<>>)
            /\ UNCHANGED <<rtext, tables, unit>>
    /\ UNCHANGED <<file_name, doc, metadata, readers>>
    /\ UNCHANGED <<splitVars, metricVars>>

\* _read_docx: one table of the loop
ReadDocxTable ==
    /\ dpc = "_read_docx"
    /\ unit >= 1
    /\ LET st == DocxTableStep(tables, log, doc.tables[unit], unit)
       IN  /\ tables' = st.tables
           /\ IF st.raised # NoError
              THEN /\ Raise(st.raised.type, st.raised.arg)
                   /\ UNCHANGED unit
              ELSE /\ log' = st.log
                   /\ IF unit < Len(doc.tables)
                      THEN dpc' = dpc /\ unit' = unit + 1
                      ELSE dpc' = "read_done" /\ unit' = 0
                   /\ UNCHANGED raised
    /\ UNCHANGED <<file_name, doc, metadata, readers, rtext>>
    /\ UNCHANGED <<splitVars, metricVars>>

\* _read_excel: excel_file = pd.ExcelFile(...); all_sheets = []; text = ""
ReadExcelOpen ==
    /\ dpc = "_read_excel"
    /\ unit = 0
    /\ IF doc.kind = "xlsx" /\ doc.opens
       THEN /\ rtext' = <<>>
            /\ tables' = <<>>
            /\ IF doc.sheets = <<>> THEN dpc' = "read_done" /\ unit' = 0
                                    ELSE dpc' = dpc /\ unit' = 1
            /\ UNCHANGED <<log, raised>>
       ELSE /\ Raise("ReadError", <<>>)
            /\ UNCHANGED <<rtext, tables, unit>>
    /\ UNCHANGED <<file_name, doc, metadata, readers>>
    /\ UNCHANGED <<splitVars, metricVars>>

\* _read_excel: one worksheet of the loop
ReadExcelSheet ==
    /\ dpc = "_read_excel"
    /\ unit >= 1
    /\ LET sheet == doc.sheets[unit]
       IN  IF ~sheet.readable
           THEN /\ Raise("ReadError", <<>>)
                /\ UNCHANGED <<rtext, tables, unit>>
           ELSE /\ tables' = Append(tables, sheet.df)
                /\ rtext' = rtext \o <<NL, "u5DE5", "u4F5C", "u8868", ":", " ">> \o sheet.name
                                  \o <<NL>> \o DfToString(sheet.df) \o <<NL>>
                /\ IF unit < Len(doc.sheets)
                   THEN dpc' = dpc /\ unit' = unit + 1
                   ELSE dpc' = "read_done" /\ unit' = 0
                /\ UNCHANGED <<log, raised>>
    /\ UNCHANGED <<file_name, doc, metadata, readers>>
    /\ UNCHANGED <<splitVars, metricVars>>

\* table_texts, all_text, chunks, the metadata counts, return
ProcessDocumentReturn ==
    /\ dpc = "read_done"
    /\ IF ProcessTablesRaises(tables)
       THEN /\ Raise("TypeError", <<>>)
            /\ UNCHANGED <<text, chunks, metadata>>
       ELSE LET all_text == rtext \o <<NL>> \o ProcessTables(tables)
                cs == SplitText(all_text, chunk_size, chunk_overlap)
            IN  /\ text' = all_text
                /\ chunks' = cs
                /\ metadata' = UpdateMetadata(metadata, tables, cs)
                /\ dpc' = "returned"
                /\ UNCHANGED <<log, raised>>
    /\ UNCHANGED <<file_name, doc, rtext, tables, unit, readers>>
    /\ UNCHANGED <<chunk_size, chunk_overlap, lines, idx, current_chunk, spc>>
    /\ UNCHANGED metricVars

Next ==
    \/ ProcessDocument
    \/ ReadPdfOpen
    \/ ReadPdfPage
    \/ ReadDocxOpen
    \/ ReadDocxTable
    \/ ReadExcelOpen
    \/ ReadExcelSheet
    \/ ProcessDocumentReturn

Spec == Init /\ [][Next]_vars

----------------------------------------------------------------------------
\* Properties of process_document

IsWarning(e) == e.level = "warning"

Warnings(lg) == SelectSeq(lg, IsWarning)

Contains(s, sub) == \E i \in 1..(Len(s) - Len(sub) + 1) : SubSeq(s, i, i + Len(sub) - 1) = sub

Supported == {ExtPdf, ExtDocx, ExtXlsx}

\* C5: whenever process_document returns, the returned metadata counts the
\* reader's tables and the returned chunks: tables_found = len(tables) and
\* total_chunks = len(chunks).
C5_MetadataCounts ==
    dpc = "returned"
        => /\ metadata.tables_found = Len(tables)
           /\ metadata.total_chunks = Len(chunks)

\* C5 witness: a call returned with a table and several chunks counted.
C5_Witness ==
    /\ dpc = "returned"
    /\ Len(tables) >= 1
    /\ Len(chunks) >= 2
    /\ metadata.tables_found = Len(tables)
    /\ metadata.total_chunks = Len(chunks)

\* C6: a file whose lowercased extension is none of .pdf, .docx, .xlsx ends
\* the call in an error that names the extension, with no reader invoked and
\* nothing returned; an extension that is a supported one up to letter case
\* is dispatched to the reader of that format.
C6_UnsupportedRejected ==
    LET ext == Lower(Suffix(file_name))
    IN  dpc # "call"
        => /\ ext \notin Supported
                => /\ dpc = "raised"
                   /\ raised = [type |-> "ValueError", arg |-> ext]
                   /\ readers = <<>>
                   /\ chunks = <<>>
                   /\ rtext = <<>>
           /\ ext = ExtPdf => readers = <<"_read_pdf">>
           /\ ext = ExtDocx => readers = <<"_read_docx">>
           /\ ext = ExtXlsx => readers = <<"_read_excel">>
           /\ Suffix(file_name) = <<".", "P", "D", "F">> => readers = <<"_read_pdf">>
           /\ Suffix(file_name) = <<".", "D", "o", "c", "x">> => readers = <<"_read_docx">>

\* C6 witness: the call on "r.pdf.txt" ended in the error naming ".txt", no
\* reader invoked.
C6_Witness ==
    /\ dpc = "raised"
    /\ file_name = <<"r", ".", "p", "d", "f", ".", "t", "x", "t">>
    /\ raised = [type |-> "ValueError", arg |-> <<".", "t", "x", "t">>]
    /\ readers = <<>>

\* a failure outside the per-page and per-table steps
DocLevelFailure ==
    CASE doc.kind = "pdf" ->
            ~doc.opens \/ \E k \in 1..Len(doc.pages) : ~doc.pages[k].readable
      [] doc.kind = "docx" -> ~doc.opens
      [] doc.kind = "xlsx" ->
            \/ ~doc.opens
            \/ \E k \in 1..Len(doc.sheets) :
                   ~doc.sheets[k].readable \/ ~doc.sheets[k].df.strcols
      [] OTHER -> TRUE

\* the frames of the DOCX tables that were read without a failure, in order
RECURSIVE GoodFrames(_)
GoodFrames(tbls) ==
    IF tbls = <<>>
    THEN <<>>
    ELSE IF ~Head(tbls).raises /\ Head(tbls).rows # <<>>
         THEN <<[columns |-> Head(tbls).rows[1], strcols |-> TRUE,
                 body |-> Tail(Head(tbls).rows)]>> \o GoodFrames(Tail(tbls))
         ELSE GoodFrames(Tail(tbls))

\* the warnings for the DOCX tables whose step failed, in order
RECURSIVE BadTableWarnings(_, _)
BadTableWarnings(tbls, k) ==
    IF k > Len(tbls)
    THEN <<>>
    ELSE IF tbls[k].raises
         THEN <<Warning(k)>> \o BadTableWarnings(tbls, k + 1)
         ELSE BadTableWarnings(tbls, k + 1)

\* C7: a failure of the table step of one PDF page or one DOCX table is
\* absorbed: it leaves a warning and no table, the other pages and tables are
\* all processed in order, all the text is accumulated, and the call returns;
\* the call is aborted only by a failure outside those steps.
C7_TableFailureAbsorbed ==
    /\ dpc = "raised"
           => /\ DocLevelFailure
              /\ raised.type \in {"ValueError", "ReadError", "TypeError"}
    /\ (dpc = "returned" /\ doc.kind = "docx")
           => /\ log = BadTableWarnings(doc.tables, 1)
              /\ tables = GoodFrames(doc.tables)
              /\ rtext = Concat([i \in 1..Len(doc.paragraphs) |-> doc.paragraphs[i] \o <<NL>>])
    /\ (dpc = "returned" /\ doc.kind = "pdf")
           => /\ Warnings(log) = log
              /\ \A i \in 1..Len(log) : \A j \in 1..Len(log) : i < j => log[i].unit < log[j].unit
              /\ tables = Concat([k \in 1..Len(doc.pages) |->
                                    IF \E i \in 1..Len(log) : log[i].unit = k
                                    THEN <<>> ELSE doc.pages[k].tables])
              /\ rtext = Concat([k \in 1..Len(doc.pages) |-> doc.pages[k].text \o <<NL>>])

\* C7 witness: a DOCX call returned after the step of its first table failed
\* and the step of its second table produced a frame.
C7_Witness ==
    /\ dpc = "returned"
    /\ doc.kind = "docx"
    /\ Len(doc.tables) >= 2
    /\ doc.tables[1].raises
    /\ ~doc.tables[2].raises
    /\ Len(tables) = 1
    /\ log = <<Warning(1)>>
    /\ doc.paragraphs # <<>>

----------------------------------------------------------------------------
\* _extract_metric_candidates

\* esg_keywords: 員工 環境 碳排 能源 培訓 薪資 安全 事故
esg_keywords ==
    << <<"u54E1", "u5DE5">>, <<"u74B0", "u5883">>, <<"u78B3", "u6392">>, <<"u80FD", "u6E90">>,
       <<"u57F9", "u8A13">>, <<"u85AA", "u8CC7">>, <<"u5B89", "u5168">>, <<"u4E8B", "u6545">> >>

\* the alternatives of the unit group, in the pattern's order:
\* % ％ 萬 億 個 人 元 小時 分鐘
UnitSymbols ==
    << <<"%">>, <<"uFF05">>, <<"u842C">>, <<"u5104">>, <<"u500B">>, <<"u4EBA">>, <<"u5143">>,
       <<"u5C0F", "u6642">>, <<"u5206", "u9418">> >>

PyNone == <<"None">>

\* t has w at index i
StartsWith(t, i, w) ==
    /\ i + Len(w) - 1 <= Len(t)
    /\ SubSeq(t, i, i + Len(w) - 1) = w

\* [^。\n]*? before the number: the first index from i on that holds a digit,
\* a 。 or a newline (Len(t) + 1 when there is none)
RECURSIVE SkipEnd(_, _)
SkipEnd(t, i) ==
    IF i <= Len(t) /\ t[i] \notin (Digits \cup {"u3002", NL}) THEN SkipEnd(t, i + 1) ELSE i

\* (\d+(?:\.\d+)?) from the digit at j: the index after the number
NumberEnd(t, j) ==
    LET e == RunEnd(t, j, Digits)
    IN  IF e + 1 <= Len(t) /\ t[e] = "." /\ t[e + 1] \in Digits
        THEN RunEnd(t, e + 1, Digits)
        ELSE e

\* (?:%|％|萬|億|個|人|元|小時|分鐘)? at index i: what the group consumes
UnitAt(t, i) ==
    LET hits == {k \in 1..Len(UnitSymbols) : StartsWith(t, i, UnitSymbols[k])}
    IN  IF hits = {}
        THEN <<>>
        ELSE UnitSymbols[CHOOSE k \in hits : \A h \in hits : k <= h]

\* keyword[^。\n]*?number_pattern  matches at index i: the keyword is there
\* and a digit comes before any 。 or newline
MatchesAt(t, kw, i) ==
    /\ StartsWith(t, i, kw)
    /\ LET j == SkipEnd(t, i + Len(kw))
       IN  j <= Len(t) /\ t[j] \in Digits

\* the match that starts at index i, where there is one
MatchAt(t, kw, i) ==
    LET j  == SkipEnd(t, i + Len(kw))
        ne == NumberEnd(t, j)
        we == RunEnd(t, ne, Whitespace)
        u  == UnitAt(t, we)
    IN  [stop     |-> we + Len(u),
         context  |-> SubSeq(t, i, we + Len(u) - 1),
         number   |-> SubSeq(t, j, ne - 1)]

\* match.groups(): number_pattern has one capturing group, the number; the
\* unit group is (?:...) and captures nothing
MatchGroups(m) == <<m.number>>

\* the dict appended for a match
Candidate(kw, m) ==
    [keyword |-> kw,
     context |-> m.context,
     value   |-> MatchGroups(m)[1],
     unit    |-> IF Len(MatchGroups(m)) > 1 THEN MatchGroups(m)[2] ELSE PyNone]

MaxMetricLen == 5

MetricAlphabet == {"u54E1", "u5DE5", "1", ".", " ", "u4EBA", "u3002"}

\* "員工人數共 1200 人，碳排放減少 15%。"
HeadcountText ==
    <<"u54E1", "u5DE5", "u4EBA", "u6578", "u5171", " ", "1", "2", "0", "0", " ", "u4EBA", "uFF0C",
      "u78B3", "u6392", "u653E", "u6E1B", "u5C11", " ", "1", "5", "%", "u3002">>

\* "培訓1.5小時\n事故0"
HoursText ==
    <<"u57F9", "u8A13", "1", ".", "5", "u5C0F", "u6642", NL, "u4E8B", "u6545", "0">>

MetricInit ==
    /\ mtext \in StringsUpTo(MetricAlphabet, MaxMetricLen) \cup {HeadcountText, HoursText}
    /\ mkw = 1
    /\ mpos = 1
    /\ candidates = <<>>
    /\ mpc = "scan"
    /\ DocIdle
    /\ chunk_size = DefaultChunkSize
    /\ chunk_overlap = DefaultChunkOverlap
    /\ text = <<>>
    /\ lines = <<>>
    /\ idx = 0
    /\ current_chunk = <<>>
    /\ chunks = <<>>
    /\ spc = "idle"

\* one step of  for match in re.finditer(...): the next match of the current
\* keyword's pattern is appended, or the loop moves to the next keyword
MetricScan ==
    /\ mpc = "scan"
    /\ mkw <= Len(esg_keywords)
    /\ LET kw   == esg_keywords[mkw]
           hits == {i \in mpos..Len(mtext) : MatchesAt(mtext, kw, i)}
       IN  IF hits # {}
           THEN LET m == MatchAt(mtext, kw, CHOOSE i \in hits : \A h \in hits : i <= h)
                IN  /\ candidates' = Append(candidates, Candidate(kw, m))
                    /\ mpos' = m.stop
                    /\ UNCHANGED mkw
           ELSE /\ mkw' = mkw + 1
                /\ mpos' = 1
                /\ UNCHANGED candidates
    /\ UNCHANGED <<mtext, mpc>>
    /\ UNCHANGED <<splitVars, docVars>>

\* return candidates
MetricReturn ==
    /\ mpc = "scan"
    /\ mkw > Len(esg_keywords)
    /\ mpc' = "done"
    /\ UNCHANGED <<mtext, mkw, mpos, candidates>>
    /\ UNCHANGED <<splitVars, docVars>>

MetricNext == MetricScan \/ MetricReturn

SpecMetric == MetricInit /\ [][MetricNext]_vars

----------------------------------------------------------------------------
\* Properties of _extract_metric_candidates

\* what follows the number and the whitespace after it in a candidate's
\* context: the unit symbol the match ended with, or nothing
ContextUnit(c) ==
    LET j == SkipEnd(c.context, Len(c.keyword) + 1)
        w == RunEnd(c.context, j + Len(c.value), Whitespace)
    IN  SubSeq(c.context, w, Len(c.context))

\* C8 (as claimed): the unit of every candidate is the unit symbol that
\* follows the matched number, and None only when no unit symbol follows; the
\* headcount sentence yields 員工 / 1200 / 人 and 碳排 / 15 / %.
C8_UnitIsFollowingSymbol ==
    mpc = "done"
        => /\ \A i \in 1..Len(candidates) :
                  candidates[i].unit =
                      IF ContextUnit(candidates[i]) = <<>>
                      THEN PyNone
                      ELSE ContextUnit(candidates[i])
           /\ mtext = HeadcountText
                  => [i \in 1..Len(candidates) |->
                          <<candidates[i].keyword, candidates[i].value, candidates[i].unit>>]
                     = << <<esg_keywords[1], <<"1", "2", "0", "0">>, <<"u4EBA">>>>,
                          <<esg_keywords[3], <<"1", "5">>, <<"%">>>> >>

====
